---- MODULE Spec2Model ----
(***************************************************************************)
(* K-drive-PRO: the request queue that caps concurrent model calls, and    *)
(* the App state (the shared Plan) that enrichment tasks, manual requests  *)
(* and replacements write to.                                              *)
(*                                                                         *)
(* JavaScript runs one job at a time: every action below is one job (an    *)
(* event handler, or the continuation of an await / then), atomic with     *)
(* respect to the others.  An await is where one action ends and a later   *)
(* one begins.                                                             *)
(***************************************************************************)
EXTENDS Integers, Sequences, FiniteSets, TLC

(* ------------------------------ bounds -------------------------------- *)

\* add() calls in the stand-alone queue specification
MaxTasks == 4
\* the form's `days` field when Generate is clicked
FormDays == 2
\* state updates from callbacks that React has queued and not yet rendered
MaxLag == 1
\* points in a model reply, all Days together
MaxPoints == 3
\* points in each Day of a model reply but the last, which holds the rest
PtsPerDay == 2
\* candidates in one find-alternatives reply
MaxAlts == 1
\* handleGenerate calls
MaxGen == 1
MaxRegen == 2
MaxRegenPoints == 2
\* confirmReplace calls
MaxReplace == 1
\* manual find-alternatives requests (handleReplaceClick without alternatives)
MaxManual == 1
\* characters in a string value of a model reply
MaxStr == 2
\* items in an array of a model reply
MaxItems == 2
\* containers inside one another in a model reply
MaxDepth == 2
\* characters in a ticket price or an average cost
MaxPrice == 3
\* characters in a Day's transportation cost
MaxTransport == 1
\* points in the Day of a plan whose cost is computed
MaxCostPts == 1
\* travelers of a plan whose cost is computed
MaxTravelers == 3

(* ------------------------- program constants -------------------------- *)

\* RequestQueue.maxConcurrent
maxConcurrent == 2

VARIABLES
    queue,          \* RequestQueue.queue: ids of the tasks waiting, head first
    activeCount,    \* RequestQueue.activeCount
    tasks,          \* every fn ever passed to add(), by id: what its closure holds
    st,             \* by id: queued, running, resolved, rejected, finished
    startLog,       \* ids in the order process() called fn()
    errLog,         \* ids console.error("Task failed") was called for
    escaped,        \* ids whose rejection left process() uncaught
    afterFailure,   \* ids process() started from the finally of a rejected task
    plan,           \* App state cell `plan`: << >> is null, <<P>> a TravelPlan
    view,           \* what the last render captured: [plan, alternatives]
    showAlternatives, \* App state cell: << >> is null, else <<[dayIdx, pointIdx]>>
    alternatives,   \* App state cell `alternatives` (the sheet's list)
    calls,          \* manual getAlternativePoints calls of handleReplaceClick
    genReq,         \* the generateTravelPlan call in flight: << >> or <<days>>
    gens,           \* handleGenerate calls that produced a Plan
    nReplace,       \* confirmReplace calls
    now,            \* the last reading of Date.now()
    warnLog,        \* ids console.warn("Failed to fetch alternatives") was called for
    result,         \* by id: what the task's getAlternativePoints call returned
    crashed,        \* a state updater threw while React applied it
    lag,            \* updates from callbacks since the last render
    altType,        \* the `type` the model puts in candidate records ("": none)
    sample,         \* the text handed to extractJson, and the document it came from
    parsed,         \* what that extractJson call returned or threw
    costPlan,       \* the TravelPlan handed to calculateTotalCost
    costs,          \* what calculateTotalCost returned, and the plan's point costs
    reply,          \* a generateTravelPlan call: its params and the parsed reply
    decoded,        \* the TravelPlan that call returned
    response,       \* what fetch gives a callOpenAICompatible call
    callResult,     \* what that call returned or threw
    alerted,        \* handleGenerate called alert(): a failure was shown
    written         \* the last write into objects of a published Plan: the
                    \* Plan as it read before and as it reads after

qvars == <<queue, activeCount, tasks, st, startLog, errLog, escaped,
           afterFailure>>

fvars == <<sample, parsed, costPlan, costs, reply, decoded,
                   response, callResult, written, alerted>>

avars == <<plan, view, showAlternatives, alternatives, calls, genReq, gens,
           nReplace, now, warnLog, result, crashed, lag, altType>>

vars == <<queue, activeCount, tasks, st, startLog, errLog, escaped,
          afterFailure, plan, view, showAlternatives, alternatives, calls, genReq, gens,
          nReplace, now, warnLog, result, crashed, lag, altType,
          sample, parsed, costPlan, costs, reply, decoded,
                   response, callResult, written, alerted>>

(* --------------------------- RequestQueue ----------------------------- *)

\* The queue's own fields and what the model records about its tasks, as
\* one value that add() and process() transform.
QState == [queue |-> queue, activeCount |-> activeCount, st |-> st,
           startLog |-> startLog, errLog |-> errLog, escaped |-> escaped]

\* process() with the guard off by one: a third task is let in.
processOffByOne(q) ==
    IF q.activeCount > maxConcurrent \/ Len(q.queue) = 0 THEN q
    ELSE [q EXCEPT !.activeCount = @ + 1,
                   !.queue = Tail(@),
                   !.st[Head(q.queue)] = "running",
                   !.startLog = Append(@, Head(q.queue))]

\* process() taking the newest task (pop) instead of the oldest (shift).
processLifo(q) ==
    IF q.activeCount >= maxConcurrent \/ Len(q.queue) = 0 THEN q
    ELSE [q EXCEPT !.activeCount = @ + 1,
                   !.queue = SubSeq(@, 1, Len(@) - 1),
                   !.st[q.queue[Len(q.queue)]] = "running",
                   !.startLog = Append(@, q.queue[Len(q.queue)])]

\* process() letting a task in only when nothing runs.
processOneAtATime(q) ==
    IF q.activeCount >= 1 \/ Len(q.queue) = 0 THEN q
    ELSE [q EXCEPT !.activeCount = @ + 1,
                   !.queue = Tail(@),
                   !.st[Head(q.queue)] = "running",
                   !.startLog = Append(@, Head(q.queue))]

\* process(), up to its await: return when the cap is reached or nothing
\* waits; else count the task in, shift it off the queue and call it (the
\* call runs fn to its first await: the model call is issued).
process(q) ==
    IF q.activeCount >= maxConcurrent \/ Len(q.queue) = 0 THEN q
    ELSE [q EXCEPT !.activeCount = @ + 1,
                   !.queue = Tail(@),
                   !.st[Head(q.queue)] = "running",
                   !.startLog = Append(@, Head(q.queue))]

\* add(fn) that pushes and does not call process().
addNoProcess(q) ==
    [q EXCEPT !.queue = Append(@, Len(q.st) + 1),
              !.st = Append(@, "queued")]

\* add(fn): push, then process().  The new task's id is the next one.
add(q) ==
    process([q EXCEPT !.queue = Append(@, Len(q.st) + 1),
                      !.st = Append(@, "queued")])

\* n add() calls in a row (the forEach loops of prefetchAlternatives).
RECURSIVE addMany(_, _)
addMany(q, n) == IF n = 0 THEN q ELSE addMany(add(q), n - 1)

\* The rest of process() with the finally block not draining again.
afterAwaitNoDrain(q, t) ==
    LET caught == IF q.st[t] = "rejected"
                  THEN [q EXCEPT !.errLog = @ \cup {t}] ELSE q
    IN  [caught EXCEPT !.activeCount = @ - 1, !.st[t] = "finished"]

\* The rest of process() without try/catch/finally: a rejection leaves
\* process() at the await, the count is not given back.
afterAwaitNoCatch(q, t) ==
    IF q.st[t] = "rejected"
    THEN [q EXCEPT !.escaped = @ \cup {t}, !.st[t] = "finished"]
    ELSE process([q EXCEPT !.activeCount = @ - 1, !.st[t] = "finished"])

\* The rest of process(), after `await fn()` settles: catch logs a
\* rejection, finally gives the slot back and calls process() again.
afterAwait(q, t) ==
    LET caught == IF q.st[t] = "rejected"
                  THEN [q EXCEPT !.errLog = @ \cup {t}] ELSE q
    IN  process([caught EXCEPT !.activeCount = @ - 1, !.st[t] = "finished"])

\* Write a queue value back to the variables.
SetQueue(q) ==
    /\ queue' = q.queue
    /\ activeCount' = q.activeCount
    /\ st' = q.st
    /\ startLog' = q.startLog
    /\ errLog' = q.errLog
    /\ escaped' = q.escaped

TaskIds == 1..Len(tasks)

\* The ids in a start log.
Started(log) == {log[i] : i \in 1..Len(log)}

\* A task of the stand-alone queue: any fn, its closure holds nothing.
AbsTask == [kind |-> "abs", dIdx |-> 0, pIdx |-> 0, name |-> << >>,
            type |-> "", gen |-> 0]

NoResult == [has |-> FALSE, list |-> << >>]

\* requestQueue.add(fn) for an arbitrary fn.
Add ==
    /\ Len(tasks) < MaxTasks
    /\ tasks' = Append(tasks, AbsTask)
    /\ result' = Append(result, NoResult)
    /\ SetQueue(add(QState))
    /\ UNCHANGED afterFailure
    /\ UNCHANGED <<plan, view, showAlternatives, alternatives, calls, genReq,
                   gens, nReplace, now, warnLog, crashed, lag, altType,
                   sample, parsed, costPlan, costs, reply, decoded,
                   response, callResult, written, alerted>>

\* The promise fn() returned resolves.
Resolve(t) ==
    /\ t \in TaskIds
    /\ tasks[t].kind = "abs"
    /\ st[t] = "running"
    /\ st' = [st EXCEPT ![t] = "resolved"]
    /\ UNCHANGED <<queue, activeCount, tasks, startLog, errLog, escaped,
                   afterFailure>>
    /\ UNCHANGED <<avars, fvars>>

\* The promise fn() returned rejects.
Reject(t) ==
    /\ t \in TaskIds
    /\ tasks[t].kind = "abs"
    /\ st[t] = "running"
    /\ st' = [st EXCEPT ![t] = "rejected"]
    /\ UNCHANGED <<queue, activeCount, tasks, startLog, errLog, escaped,
                   afterFailure>>
    /\ UNCHANGED <<avars, fvars>>

\* process() resumes after its await.
Resume(t) ==
    /\ t \in TaskIds
    /\ st[t] \in {"resolved", "rejected"}
    /\ SetQueue(afterAwait(QState, t))
    /\ afterFailure' = IF st[t] = "rejected"
                       THEN afterFailure \cup (Started(startLog') \ Started(startLog))
                       ELSE afterFailure
    /\ UNCHANGED tasks
    /\ UNCHANGED <<avars, fvars>>

(* ------------------------------ the Plan ------------------------------ *)

\* A point's `alternatives` field when it is absent (undefined).
Absent == [has |-> FALSE, list |-> << >>]

\* A point's `alternatives` field holding the array l.
Present(l) == [has |-> TRUE, list |-> l]

\* The category the model gave the point at (d, p) of a reply.
PointType(d, p) == IF p = 1 THEN "attraction" ELSE "restaurant"

\* A candidate record of a find-alternatives reply.  type = "" stands for a
\* record without a `type` field (the prompt does not ask for one).
AltTypes == {"", "hotel"}

\* How many candidates a find-alternatives reply can hold.
ReplySizes == 1..MaxAlts

\* What getAlternativePoints(name, type) returns for a reply of n candidates
\* whose records carry the type ty: candidates named after the place they
\* were asked for.
AltList(name, n, ty) ==
    [k \in 1..n |-> [name |-> Append(name, k), type |-> ty]]

\* data.days of the g-th model reply when it holds n points: PtsPerDay
\* points a Day, the last Day holding what is left.
ReplyDays(g, n) ==
    [d \in 1..((n + PtsPerDay - 1) \div PtsPerDay) |->
        [points |-> [p \in 1..(IF d * PtsPerDay <= n THEN PtsPerDay
                                ELSE n - (d - 1) * PtsPerDay) |->
            [name |-> <<g, d, p>>, type |-> PointType(d, p),
             alternatives |-> Absent]]]]

\* generateTravelPlan's return value.
NewPlan(id, g, days, replyDays) ==
    [id |-> id, gen |-> g, durationDays |-> days, days |-> replyDays]

HasDay(P, d) == d \in 1..Len(P.days)

HasPoint(P, d, p) == HasDay(P, d) /\ p \in 1..Len(P.days[d].points)

\* {...undefined}: a point object without any field of its own.
NoFields == [name |-> << >>, type |-> "", alternatives |-> Absent]

\* An array slot never assigned (a hole of a sparse array).
Hole == [name |-> << >>, type |-> "hole", alternatives |-> Absent]

\* points[p] = v on a JavaScript array: in place when p is an index of it,
\* else the array grows to p, leaving holes between.
ArraySet(points, p, v) ==
    [i \in 1..(IF p > Len(points) THEN p ELSE Len(points)) |->
        IF i = p THEN v ELSE IF i <= Len(points) THEN points[i] ELSE Hole]

PointAt(P, d, p) == IF HasPoint(P, d, p) THEN P.days[d].points[p] ELSE NoFields

\* prefetchAlternatives' merge computed from the plan the task was created
\* with (no alternatives anywhere yet) instead of the latest one.
mergeBulkCaptured(prev, d, p, alts) ==
    IF prev = << >> THEN << >>
    ELSE IF HasPoint(prev[1], d, p)
         THEN <<[prev[1] EXCEPT !.days =
                    [i \in 1..Len(@) |->
                        [points |-> [j \in 1..Len(@[i].points) |->
                            [@[i].points[j] EXCEPT !.alternatives =
                                IF i = d /\ j = p THEN Present(alts) ELSE Absent]]]]]>>
         ELSE prev

\* The updater of prefetchAlternatives: guarded, so a coordinate the
\* current plan lacks is left alone.
mergeBulk(prev, d, p, alts) ==
    IF prev = << >> THEN << >>
    ELSE IF HasPoint(prev[1], d, p)
         THEN <<[prev[1] EXCEPT !.days[d].points[p].alternatives = Present(alts)]>>
         ELSE prev

\* A catch block that clears the point's alternatives instead of leaving
\* them alone.
catchBulkClears(prev, d, p) ==
    IF prev # << >> /\ HasPoint(prev[1], d, p)
    THEN <<[prev[1] EXCEPT !.days[d].points[p].alternatives = Present(<< >>)]>>
    ELSE prev

\* The plan after the catch block of a prefetchAlternatives task: the block
\* warns and sets nothing.
catchBulk(prev, d, p) == prev

\* Whether the updater of handleReplaceClick throws on prev: it reads
\* newDays[dIdx].points without a guard.
manualThrows(prev, d) == prev # << >> /\ ~HasDay(prev[1], d)

\* The updater of handleReplaceClick: unguarded spread into points[pIdx].
mergeManual(prev, d, p, alts) ==
    IF prev = << >> THEN << >>
    ELSE <<[prev[1] EXCEPT !.days[d].points =
               ArraySet(@, p, [PointAt(prev[1], d, p) EXCEPT
                                   !.alternatives = Present(alts)])]>>

\* Whether the updater of confirmReplace's task throws on curr: it assigns
\* to d[dayIdx].points[pointIdx].alternatives without a guard.
reThrows(curr, d, p) == curr # << >> /\ ~HasPoint(curr[1], d, p)

\* The updater of confirmReplace's task.
mergeRe(curr, d, p, alts) ==
    IF curr = << >> THEN << >>
    ELSE <<[curr[1] EXCEPT !.days[d].points[p].alternatives = Present(alts)]>>

\* newPoint of confirmReplace: the alternative's fields spread over the old
\* point's, alternatives reset to [].
replacedPoint(oldPoint, alt) ==
    [name |-> alt.name,
     type |-> IF alt.type # "" THEN alt.type ELSE oldPoint.type,
     alternatives |-> Present(<< >>)]

\* The plan value confirmReplace hands to setPlan, built from the plan its
\* closure captured.
replacedPlan(captured, d, p, alt) ==
    [captured EXCEPT !.days[d].points =
        ArraySet(@, p, replacedPoint(PointAt(captured, d, p), alt))]

\* An assignment through a reference into the objects of a Plan that was
\* handed to setPlan earlier: the Plan as it read before the assignment, and
\* as the same objects read after it.
InPlace(before, after) == <<[taken |-> before, reads |-> after]>>

\* setPlan: no effect once the component is gone.
SetPlan(v) == plan' = IF crashed THEN plan ELSE v

(* ------------------------------- the App ------------------------------ *)

\* The (day, point) coordinates of plan P.
Coords(P) ==
    UNION {{<<d, p>> : p \in 1..Len(P.days[d].points)} : d \in 1..Len(P.days)}

\* React renders: the handlers of the next events close over this state.
Render ==
    /\ ~crashed
    /\ view # [plan |-> plan, alternatives |-> alternatives]
    /\ view' = [plan |-> plan, alternatives |-> alternatives]
    /\ lag' = 0
    /\ UNCHANGED qvars
    /\ UNCHANGED <<plan, showAlternatives, alternatives, calls, genReq, gens,
                   nReplace, now, warnLog, result, crashed, altType,
                   sample, parsed, costPlan, costs, reply, decoded,
                   response, callResult, written, alerted>>

\* What Date.now() can return: the last reading or a later one (the first
\* reading is called 1).
Readings == IF now = 0 THEN {1} ELSE {now, now + 1}

\* handleGenerate up to its await: the button is enabled (not loading, no
\* sheet over it), the request for FormDays Days goes out.
GenerateStart ==
    /\ ~crashed
    /\ genReq = << >>
    /\ showAlternatives = << >>
    /\ gens < MaxGen
    /\ genReq' = <<FormDays>>
    /\ UNCHANGED qvars
    /\ UNCHANGED <<plan, view, showAlternatives, alternatives, calls, gens,
                   nReplace, now, warnLog, result, crashed, lag, altType,
                   sample, parsed, costPlan, costs, reply, decoded,
                   response, callResult, written, alerted>>

\* handleGenerate again, a plan being there: the Generate button of the
\* form opened once more.
GenerateAgain ==
    /\ ~crashed
    /\ genReq = << >>
    /\ showAlternatives = << >>
    /\ gens < MaxRegen
    /\ genReq' = <<FormDays>>
    /\ UNCHANGED qvars
    /\ UNCHANGED <<plan, view, showAlternatives, alternatives, calls, gens,
                   nReplace, now, warnLog, result, crashed, lag, altType,
                   sample, parsed, costPlan, costs, reply, decoded,
                   response, callResult, written, alerted>>

\* The closures prefetchAlternatives queues for a plan, Day by Day, point by
\* point.
RECURSIVE bulkTasks(_, _, _)
bulkTasks(P, d, p) ==
    IF d > Len(P.days) THEN << >>
    ELSE IF p > Len(P.days[d].points) THEN bulkTasks(P, d + 1, 1)
    ELSE <<[kind |-> "bulk", dIdx |-> d, pIdx |-> p,
            name |-> P.days[d].points[p].name,
            type |-> P.days[d].points[p].type, gen |-> P.gen]>>
         \o bulkTasks(P, d, p + 1)

\* handleGenerate after generateTravelPlan returned a plan of n points, its
\* id the clock's reading then (never earlier than the last reading):
\* setPlan(newPlan), then prefetchAlternatives(newPlan).
GenerateOk(n, clock) ==
    /\ genReq # << >>
    /\ lag < MaxLag
    /\ lag' = lag + 1
    /\ now' = clock
    /\ LET newPlan == NewPlan(clock, gens + 1, genReq[1], ReplyDays(gens + 1, n))
           fns == bulkTasks(newPlan, 1, 1)
       IN  /\ SetPlan(<<newPlan>>)
           /\ tasks' = tasks \o fns
           /\ result' = result \o [i \in 1..Len(fns) |-> NoResult]
           /\ SetQueue(addMany(QState, Len(fns)))
    /\ genReq' = << >>
    /\ gens' = gens + 1
    /\ UNCHANGED <<afterFailure, view, showAlternatives, alternatives, calls,
                   nReplace, warnLog, crashed, altType,
                   sample, parsed, costPlan, costs, reply, decoded,
                   response, callResult, written, alerted>>

\* A catch block of handleGenerate that drops the plan on show: alert and
\* setPlan(null).
GenerateFailClears ==
    /\ genReq # << >>
    /\ genReq' = << >>
    /\ alerted' = TRUE
    /\ plan' = << >>
    /\ UNCHANGED qvars
    /\ UNCHANGED <<view, showAlternatives, alternatives, calls, gens,
                   nReplace, now, warnLog, result, crashed, lag, altType,
                   sample, parsed, costPlan, costs, reply, decoded,
                   response, callResult, written>>

\* handleGenerate when generateTravelPlan threw (the model call or the
\* parsing of its reply; neither is tried again): alert, nothing else.
GenerateFail ==
    /\ genReq # << >>
    /\ genReq' = << >>
    /\ alerted' = TRUE
    /\ plan' = plan
    /\ UNCHANGED qvars
    /\ UNCHANGED <<view, showAlternatives, alternatives, calls, gens,
                   nReplace, now, warnLog, result, crashed, lag, altType,
                   sample, parsed, costPlan, costs, reply, decoded,
                   response, callResult, written>>

\* A prefetchAlternatives task whose call returned alts: merge and resolve.
BulkOk(t, n) ==
    /\ t \in TaskIds
    /\ tasks[t].kind = "bulk"
    /\ st[t] = "running"
    /\ lag < MaxLag
    /\ lag' = lag + 1
    /\ LET alts == AltList(tasks[t].name, n, altType)
       IN  /\ SetPlan(mergeBulk(plan, tasks[t].dIdx, tasks[t].pIdx, alts))
           /\ result' = [result EXCEPT ![t] = Present(alts)]
    /\ st' = [st EXCEPT ![t] = "resolved"]
    /\ UNCHANGED <<queue, activeCount, tasks, startLog, errLog, escaped,
                   afterFailure>>
    /\ UNCHANGED <<view, showAlternatives, alternatives, calls, genReq, gens,
                   nReplace, now, warnLog, crashed, altType,
                   sample, parsed, costPlan, costs, reply, decoded,
                   response, callResult, written, alerted>>

\* A prefetchAlternatives task whose call or parse threw: its own catch
\* warns, and the task resolves.
BulkFail(t) ==
    /\ t \in TaskIds
    /\ tasks[t].kind = "bulk"
    /\ st[t] = "running"
    /\ warnLog' = warnLog \cup {t}
    /\ plan' = catchBulk(plan, tasks[t].dIdx, tasks[t].pIdx)
    /\ st' = [st EXCEPT ![t] = "resolved"]
    /\ UNCHANGED <<queue, activeCount, tasks, startLog, errLog, escaped,
                   afterFailure>>
    /\ UNCHANGED <<view, showAlternatives, alternatives, calls, genReq,
                   gens, nReplace, now, result, crashed, lag, altType,
                   sample, parsed, costPlan, costs, reply, decoded,
                   response, callResult, written, alerted>>

\* confirmReplace's task whose call returned alts: the updater runs on the
\* current plan (and throws inside React when the point is not there).
ReOk(t, n) ==
    /\ t \in TaskIds
    /\ tasks[t].kind = "re"
    /\ st[t] = "running"
    /\ lag < MaxLag
    /\ lag' = lag + 1
    /\ LET alts == AltList(tasks[t].name, n, altType)
           throws == ~crashed /\ reThrows(plan, tasks[t].dIdx, tasks[t].pIdx)
       IN  /\ IF throws THEN plan' = plan
              ELSE SetPlan(mergeRe(plan, tasks[t].dIdx, tasks[t].pIdx, alts))
           /\ crashed' = (crashed \/ throws)
           /\ result' = [result EXCEPT ![t] = Present(alts)]
           \* the updater copies the array of Days only: the assignment goes
           \* into the point object of the current plan
           /\ written' = IF crashed \/ throws \/ plan = << >> THEN written
                         ELSE InPlace(plan[1],
                                      mergeRe(plan, tasks[t].dIdx,
                                              tasks[t].pIdx, alts)[1])
    /\ st' = [st EXCEPT ![t] = "resolved"]
    /\ UNCHANGED <<queue, activeCount, tasks, startLog, errLog, escaped,
                   afterFailure>>
    /\ UNCHANGED <<view, showAlternatives, alternatives, calls, genReq, gens,
                   nReplace, now, warnLog, altType,
                   sample, parsed, costPlan, costs, reply, decoded,
                   response, callResult, alerted>>

\* confirmReplace's task whose call or parse threw: the task rejects.
ReFail(t) ==
    /\ t \in TaskIds
    /\ tasks[t].kind = "re"
    /\ st[t] = "running"
    /\ st' = [st EXCEPT ![t] = "rejected"]
    /\ UNCHANGED <<queue, activeCount, tasks, startLog, errLog, escaped,
                   afterFailure>>
    /\ UNCHANGED <<avars, fvars>>

\* handleReplaceClick(e, pt, dIdx, pIdx), pt being the point the last render
\* drew at (d, p): with alternatives the sheet opens on them; without, the
\* sheet opens and getAlternativePoints is called directly.
handleReplaceClick(d, p) ==
    /\ ~crashed
    /\ showAlternatives = << >>
    /\ view.plan # << >>
    /\ HasPoint(view.plan[1], d, p)
    /\ view.plan[1].days[d].points[p].type # "hole"
    /\ showAlternatives' = <<[dayIdx |-> d, pointIdx |-> p]>>
    /\ LET pt == view.plan[1].days[d].points[p]
       IN  IF pt.alternatives.has /\ Len(pt.alternatives.list) > 0
           THEN /\ alternatives' = pt.alternatives.list
                /\ view' = [view EXCEPT !.alternatives = pt.alternatives.list]
                /\ UNCHANGED calls
           ELSE /\ Len(calls) < MaxManual
                /\ calls' = Append(calls, [dIdx |-> d, pIdx |-> p, name |-> pt.name,
                                           type |-> pt.type, st |-> "pending"])
                /\ UNCHANGED <<alternatives, view>>
    /\ UNCHANGED qvars
    /\ UNCHANGED <<plan, genReq, gens, nReplace, now, warnLog, result, crashed,
                   lag, altType,
                   sample, parsed, costPlan, costs, reply, decoded,
                   response, callResult, written, alerted>>

\* The then-callback of handleReplaceClick: setAlternatives(alts), and the
\* updater merges into the current plan (it throws inside React when the
\* current plan has no such Day).
ManualOk(c, n) ==
    /\ c \in 1..Len(calls)
    /\ calls[c].st = "pending"
    /\ lag < MaxLag
    /\ lag' = lag + 1
    /\ LET alts == AltList(calls[c].name, n, altType)
           throws == ~crashed /\ manualThrows(plan, calls[c].dIdx)
       IN  /\ alternatives' = IF crashed THEN alternatives ELSE alts
           /\ IF throws THEN plan' = plan
              ELSE SetPlan(mergeManual(plan, calls[c].dIdx, calls[c].pIdx, alts))
           /\ crashed' = (crashed \/ throws)
    /\ calls' = [calls EXCEPT ![c].st = "ok"]
    /\ UNCHANGED qvars
    /\ UNCHANGED <<view, showAlternatives, genReq, gens, nReplace, now, warnLog,
                   result, altType,
                   sample, parsed, costPlan, costs, reply, decoded,
                   response, callResult, written, alerted>>

\* The call of handleReplaceClick fails: no catch, nothing is set.
ManualFail(c) ==
    /\ c \in 1..Len(calls)
    /\ calls[c].st = "pending"
    /\ calls' = [calls EXCEPT ![c].st = "failed"]
    /\ UNCHANGED qvars
    /\ UNCHANGED <<plan, view, showAlternatives, alternatives, genReq, gens,
                   nReplace, now, warnLog, result, crashed, lag, altType,
                   sample, parsed, costPlan, costs, reply, decoded,
                   response, callResult, written, alerted>>

\* The sheet's close button: setShowAlternatives(null).
CloseSheet ==
    /\ ~crashed
    /\ showAlternatives # << >>
    /\ showAlternatives' = << >>
    /\ UNCHANGED qvars
    /\ UNCHANGED <<plan, view, alternatives, calls, genReq, gens, nReplace, now,
                   warnLog, result, crashed, lag, altType,
                   sample, parsed, costPlan, costs, reply, decoded,
                   response, callResult, written, alerted>>

\* confirmReplace(alt), alt being the k-th entry the sheet drew.  It builds
\* the new plan from the plan its closure captured at the last render, hands
\* it to setPlan as a value, and queues the task that fetches alternatives
\* for the new point.  (When the captured plan has no such Day the handler
\* throws before it sets anything.)
confirmReplace(k) ==
    /\ ~crashed
    /\ nReplace < MaxReplace
    /\ showAlternatives # << >>
    /\ k \in 1..Len(view.alternatives)
    /\ view.plan # << >>
    /\ HasDay(view.plan[1], showAlternatives[1].dayIdx)
    /\ LET d == showAlternatives[1].dayIdx
           p == showAlternatives[1].pointIdx
           alt == view.alternatives[k]
           newPlan == replacedPlan(view.plan[1], d, p, alt)
           newPoint == newPlan.days[d].points[p]
       IN  /\ plan' = <<newPlan>>
           /\ view' = [plan |-> <<newPlan>>, alternatives |-> << >>]
           /\ tasks' = Append(tasks, [kind |-> "re", dIdx |-> d, pIdx |-> p,
                                      name |-> newPoint.name, type |-> newPoint.type,
                                      gen |-> newPlan.gen])
           \* newDays is a copy of the array of Days only: the assignment
           \* goes into the points array of the captured plan's own Day
           /\ written' = InPlace(view.plan[1], newPlan)
    /\ showAlternatives' = << >>
    /\ alternatives' = << >>
    /\ result' = Append(result, NoResult)
    /\ SetQueue(add(QState))
    /\ nReplace' = nReplace + 1
    /\ lag' = 0
    /\ UNCHANGED <<afterFailure, calls, genReq, gens, now, warnLog, crashed, altType,
                   sample, parsed, costPlan, costs, reply, decoded,
                   response, callResult, alerted>>

(* ------------------------- JSON text and values ------------------------ *)

\* A text is a sequence of one-character strings.
QUOTE == "\""
BSL == "\\"
NL == "\n"
\* The backquote (written as an apostrophe: a TLA+ string cannot hold one)
\* and the code-fence marker, three of them.
TICK == "'"
FENCE == <<TICK, TICK, TICK>>

\* What a regular expression's white-space class and trim() take as white
\* space, of the characters the texts here are made of.
Ws == {" ", NL}

Digits == {"1", "2"}

\* The digit's value (parseInt, and the number token of JSON.parse).
DigitVal(c) == IF c = "1" THEN 1 ELSE 2

\* Decoded JSON values: a kind and a payload.
Num(n) == [k |-> "num", v |-> n]
Str(s) == [k |-> "str", v |-> s]
Arr(a) == [k |-> "arr", v |-> a]
Obj(o) == [k |-> "obj", v |-> o]   \* entries <<key, value>>, in insertion order
Undefined == [k |-> "undefined", v |-> 0]

\* The result of a parsing step: did it succeed, the value, the next index.
Fail == [ok |-> FALSE, val |-> Undefined, next |-> 0]
Done(v, i) == [ok |-> TRUE, val |-> v, next |-> i]

\* s.startsWith(w, i), 1-based.
StartsAt(s, w, i) ==
    /\ i >= 1
    /\ i + Len(w) - 1 <= Len(s)
    /\ \A j \in 1..Len(w) : s[i + j - 1] = w[j]

\* The text from index i on (substring).
From(s, i) == SubSeq(s, i, Len(s))

RECURSIVE skipWs(_, _)
skipWs(s, i) == IF i <= Len(s) /\ s[i] \in Ws THEN skipWs(s, i + 1) ELSE i

\* String.prototype.trim
RECURSIVE trimEnd(_)
trimEnd(s) == IF Len(s) > 0 /\ s[Len(s)] \in Ws
              THEN trimEnd(SubSeq(s, 1, Len(s) - 1)) ELSE s

trim(s) == trimEnd(From(s, skipWs(s, 1)))

\* JSON.parse, string token: s[i] is the opening quote; acc is what has been
\* decoded.  A raw line break inside a string and an unknown escape are
\* syntax errors.
RECURSIVE parseString(_, _, _)
parseString(s, j, acc) ==
    IF j > Len(s) THEN Fail
    ELSE IF s[j] = QUOTE THEN Done(Str(acc), j + 1)
    ELSE IF s[j] = BSL
         THEN IF j + 1 > Len(s) THEN Fail
              ELSE IF s[j + 1] \in {QUOTE, BSL, "/"}
                   THEN parseString(s, j + 2, Append(acc, s[j + 1]))
              ELSE IF s[j + 1] = "n"
                   THEN parseString(s, j + 2, Append(acc, NL))
              ELSE Fail
    ELSE IF s[j] = NL THEN Fail
    ELSE parseString(s, j + 1, Append(acc, s[j]))

\* JSON.parse, number token: a run of digits from i on, n its value so far.
RECURSIVE parseNumber(_, _, _)
parseNumber(s, i, n) ==
    IF i <= Len(s) /\ s[i] \in Digits
    THEN parseNumber(s, i + 1, 10 * n + DigitVal(s[i]))
    ELSE Done(Num(n), i)

\* Object.defineProperty order: a repeated key keeps its first place and
\* takes the last value.
RECURSIVE putEntry(_, _, _)
putEntry(o, key, val) ==
    IF o = << >> THEN << <<key, val>> >>
    ELSE IF o[1][1] = key THEN << <<key, val>> >> \o Tail(o)
    ELSE <<o[1]>> \o putEntry(Tail(o), key, val)

\* JSON.parse, a value starting at or after i; then the members of an array
\* after the bracket or a comma, and the members of an object likewise.  The texts
\* here have no letters that spell true, false or null.
RECURSIVE parseValue(_, _)
RECURSIVE parseItems(_, _, _)
RECURSIVE parseMembers(_, _, _)
parseValue(s, i0) ==
    LET i == skipWs(s, i0)
    IN  IF i > Len(s) THEN Fail
        ELSE IF s[i] = QUOTE THEN parseString(s, i + 1, << >>)
        ELSE IF s[i] \in Digits THEN parseNumber(s, i, 0)
        ELSE IF s[i] = "["
             THEN LET j == skipWs(s, i + 1)
                  IN  IF j <= Len(s) /\ s[j] = "]" THEN Done(Arr(<< >>), j + 1)
                      ELSE parseItems(s, j, << >>)
        ELSE IF s[i] = "{"
             THEN LET j == skipWs(s, i + 1)
                  IN  IF j <= Len(s) /\ s[j] = "}" THEN Done(Obj(<< >>), j + 1)
                      ELSE parseMembers(s, j, << >>)
        ELSE Fail

parseItems(s, i, acc) ==
    LET item == parseValue(s, i)
        j == skipWs(s, item.next)
    IN  IF ~item.ok \/ j > Len(s) THEN Fail
        ELSE IF s[j] = "," THEN parseItems(s, j + 1, Append(acc, item.val))
        ELSE IF s[j] = "]" THEN Done(Arr(Append(acc, item.val)), j + 1)
        ELSE Fail

parseMembers(s, i0, acc) ==
    LET i == skipWs(s, i0)
        key == IF i <= Len(s) /\ s[i] = QUOTE
               THEN parseString(s, i + 1, << >>) ELSE Fail
        c == skipWs(s, key.next)
        val == IF key.ok /\ c <= Len(s) /\ s[c] = ":"
               THEN parseValue(s, c + 1) ELSE Fail
        j == skipWs(s, val.next)
    IN  IF ~val.ok \/ j > Len(s) THEN Fail
        ELSE IF s[j] = ","
             THEN parseMembers(s, j + 1, putEntry(acc, key.val.v, val.val))
        ELSE IF s[j] = "}"
             THEN Done(Obj(putEntry(acc, key.val.v, val.val)), j + 1)
        ELSE Fail

\* JSON.parse(text): one value, white space around it, nothing else; a
\* SyntaxError otherwise (ok = FALSE).
JSONparse(s) ==
    LET r == parseValue(s, 1)
    IN  IF r.ok /\ skipWs(s, r.next) > Len(s) THEN Done(r.val, r.next) ELSE Fail

(* ----------------------------- extractJson ----------------------------- *)

\* The least index >= i at which w occurs in s, 0 when there is none
\* (indexOf, and the left-most start of a regular expression's match).
RECURSIVE IndexOf(_, _, _)
IndexOf(s, w, i) ==
    IF i + Len(w) - 1 > Len(s) THEN 0
    ELSE IF StartsAt(s, w, i) THEN i
    ELSE IndexOf(s, w, i + 1)

\* text.match(fence pattern): the marker, an optional json tag, white
\* space, a lazy capture group, the marker.  The capture group of the
\* left-most match, << >> when nothing matches (an empty group is falsy and
\* reads the same in extractJson).  After the opening marker the optional
\* tag and the white space are taken greedily, the group runs to the first
\* closing marker after them.
codeBlockMatch(s) ==
    LET open == IndexOf(s, FENCE, 1)
        tag == IF StartsAt(s, <<"j", "s", "o", "n">>, open + 3)
               THEN open + 7 ELSE open + 3
        body == skipWs(s, tag)
        close == IndexOf(s, FENCE, body)
    IN  IF open = 0 \/ close = 0 THEN << >>
        ELSE SubSeq(s, body, close - 1)

\* Does the comment pattern match at these two slashes: they stand at i, at
\* the start of a line or after a character that is not a colon.
CommentAt(s, i) ==
    /\ StartsAt(s, <<"/", "/">>, i)
    /\ (i = 1 \/ s[i - 1] # ":")

\* The end of the line i is in: the index of the next line break, or one
\* past the text (where the pattern's tail stops, with the m flag).
RECURSIVE LineEnd(_, _)
LineEnd(s, i) == IF i > Len(s) \/ s[i] = NL THEN i ELSE LineEnd(s, i + 1)

\* jsonString.replace(comment pattern, first group): every such pair of
\* slashes goes with the rest of its line; the character before it stays.  The pattern
\* knows nothing of string literals.
RECURSIVE stripComments(_, _, _)
stripComments(s, i, acc) ==
    IF i > Len(s) THEN acc
    ELSE IF CommentAt(s, i) THEN stripComments(s, LineEnd(s, i), acc)
    ELSE stripComments(s, i + 1, Append(acc, s[i]))

\* jsonString.search(an opening brace or bracket), 1-based, 0 for -1.
RECURSIVE firstOpen(_, _)
firstOpen(s, i) ==
    IF i > Len(s) THEN 0
    ELSE IF s[i] \in {"{", "["} THEN i
    ELSE firstOpen(s, i + 1)

\* Steps 1 to 3 of extractJson: the string handed to the first JSON.parse.
cleaned(text) ==
    LET trimmed == trim(text)
        block == codeBlockMatch(trimmed)
        inner == IF block # << >> THEN trim(block) ELSE trimmed
        bare == stripComments(inner, 1, << >>)
        open == firstOpen(bare, 1)
    IN  IF open # 0 THEN From(bare, open) ELSE bare

\* The repair scan (the for loop): the stack of expected closers, top last,
\* and whether the text ends inside a string.  A backslash escapes the next
\* character wherever it stands; a closer that is not the expected one is
\* passed over.
\* The repair scan taking braces and brackets inside strings for containers.
RECURSIVE scanStringBlind(_, _, _, _, _)
scanStringBlind(s, i, stack, inString, isEscaped) ==
    IF i > Len(s) THEN [stack |-> stack, inString |-> inString,
                        isEscaped |-> isEscaped]
    ELSE IF isEscaped THEN scanStringBlind(s, i + 1, stack, inString, FALSE)
    ELSE IF s[i] = BSL THEN scanStringBlind(s, i + 1, stack, inString, TRUE)
    ELSE LET str == IF s[i] = QUOTE THEN ~inString ELSE inString
             stk == IF s[i] = "{" THEN Append(stack, "}")
                    ELSE IF s[i] = "[" THEN Append(stack, "]")
                    ELSE IF s[i] \in {"}", "]"} /\ Len(stack) > 0
                            /\ stack[Len(stack)] = s[i]
                         THEN SubSeq(stack, 1, Len(stack) - 1)
                    ELSE stack
         IN  scanStringBlind(s, i + 1, stk, str, FALSE)

RECURSIVE scan(_, _, _, _, _)
scan(s, i, stack, inString, isEscaped) ==
    IF i > Len(s) THEN [stack |-> stack, inString |-> inString,
                        isEscaped |-> isEscaped]
    ELSE IF isEscaped THEN scan(s, i + 1, stack, inString, FALSE)
    ELSE IF s[i] = BSL THEN scan(s, i + 1, stack, inString, TRUE)
    ELSE LET str == IF s[i] = QUOTE THEN ~inString ELSE inString
             stk == IF str THEN stack
                    ELSE IF s[i] = "{" THEN Append(stack, "}")
                    ELSE IF s[i] = "[" THEN Append(stack, "]")
                    ELSE IF s[i] \in {"}", "]"} /\ Len(stack) > 0
                            /\ stack[Len(stack)] = s[i]
                         THEN SubSeq(stack, 1, Len(stack) - 1)
                    ELSE stack
         IN  scan(s, i + 1, stk, str, FALSE)

\* jsonString.replace(comma and white space at the end): when the last character that is not
\* white space is a comma, the text is cut before it.
dropEndComma(s) ==
    LET t == trimEnd(s)
    IN  IF Len(t) > 0 /\ t[Len(t)] = "," THEN SubSeq(t, 1, Len(t) - 1) ELSE s

\* while (stack.length > 0) jsonString += stack.pop()
RECURSIVE closeAll(_, _)
closeAll(s, stack) ==
    IF stack = << >> THEN s
    ELSE closeAll(Append(s, stack[Len(stack)]), SubSeq(stack, 1, Len(stack) - 1))

\* jsonString.replace(comma, white space, closer; all matches): a comma with only white space
\* between it and a closing brace or bracket goes, with that white space,
\* inside string literals as well as outside.
RECURSIVE dropCommas(_, _, _)
dropCommas(s, i, acc) ==
    IF i > Len(s) THEN acc
    ELSE LET j == skipWs(s, i + 1)
         IN  IF s[i] = "," /\ j <= Len(s) /\ s[j] \in {"}", "]"}
             THEN dropCommas(s, j + 1, Append(acc, s[j]))
             ELSE dropCommas(s, i + 1, Append(acc, s[i]))

\* Step 5 of extractJson: the string handed to the second JSON.parse.
repaired(jsonString) ==
    LET end == scan(jsonString, 1, << >>, FALSE, FALSE)
        quoted == IF end.inString THEN Append(jsonString, QUOTE) ELSE jsonString
    IN  dropCommas(closeAll(dropEndComma(quoted), end.stack), 1, << >>)

\* extractJson(text): the value of the first parse, else of the parse after
\* the repair, else the Error it throws.
extractJson(text) ==
    LET jsonString == cleaned(text)
        direct == JSONparse(jsonString)
        second == JSONparse(repaired(jsonString))
    IN  IF direct.ok THEN [ok |-> TRUE, val |-> direct.val, path |-> "direct"]
        ELSE IF second.ok
             THEN [ok |-> TRUE, val |-> second.val, path |-> "repair"]
        ELSE [ok |-> FALSE, val |-> Undefined, path |-> "throw"]

(* ------------------- model replies handed to extractJson ---------------- *)

\* Characters a string value of a reply is made of: a letter, and the ones
\* the cleaning and repair steps look for.
StrChars == {"a", "/", ",", "{", "}", "]", QUOTE}

\* Sequences over S of length at most n.
SeqsUpTo(S, n) == UNION {[1..m -> S] : m \in 0..n}

\* String values of at most n characters.
Strs(n) == SeqsUpTo(StrChars, n)

Scalars(n) == {Num(1), Num(12)} \cup {Str(s) : s \in Strs(n)}

\* Arrays of at most m scalars, and objects of no member or of one scalar.
Flat(n, m) == {Arr(a) : a \in SeqsUpTo(Scalars(n), m)}
                  \cup {Obj(<< <<<<"a">>, x>> >>) : x \in Scalars(n)}
                  \cup {Obj(<< >>)}

\* A container of at most one member inside a container, when the depth d
\* is 2 or more.
Nested(n, m, d) ==
    IF d < 2 THEN {}
    ELSE LET inner == {f \in Flat(n, m) : Len(f.v) <= 1}
         IN  {Arr(<<c>>) : c \in inner}
                 \cup {Obj(<< <<<<"a">>, c>> >>) : c \in inner}

\* The values a model reply may write.
Values(n, m, d) == Scalars(n) \cup Flat(n, m) \cup Nested(n, m, d)

\* The digits of n (n >= 1), most significant first.
RECURSIVE digitsOf(_)
digitsOf(n) ==
    LET d == IF n % 10 = 1 THEN "1" ELSE "2"
    IN  IF n < 10 THEN <<d>> ELSE Append(digitsOf(n \div 10), d)

\* The characters of a string value as a JSON text writes them.
RECURSIVE escape(_)
escape(s) ==
    IF s = << >> THEN << >>
    ELSE (IF s[1] \in {QUOTE, BSL} THEN <<BSL, s[1]>>
          ELSE IF s[1] = NL THEN <<BSL, "n">>
          ELSE <<s[1]>>) \o escape(Tail(s))

\* The compact JSON text of a value (what a well-behaved model replies).
RECURSIVE encode(_)
RECURSIVE encodeItems(_)
RECURSIVE encodeMembers(_)
encode(x) ==
    IF x.k = "num" THEN digitsOf(x.v)
    ELSE IF x.k = "str" THEN <<QUOTE>> \o escape(x.v) \o <<QUOTE>>
    ELSE IF x.k = "arr" THEN <<"[">> \o encodeItems(x.v) \o <<"]">>
    ELSE <<"{">> \o encodeMembers(x.v) \o <<"}">>

encodeItems(a) ==
    IF a = << >> THEN << >>
    ELSE IF Len(a) = 1 THEN encode(a[1])
    ELSE encode(a[1]) \o <<",">> \o encodeItems(Tail(a))

encodeMembers(o) ==
    IF o = << >> THEN << >>
    ELSE LET m == <<QUOTE>> \o escape(o[1][1]) \o <<QUOTE, ":">> \o encode(o[1][2])
         IN  IF Len(o) = 1 THEN m ELSE m \o <<",">> \o encodeMembers(Tail(o))

\* The state of the repair scan after the first n characters of s.
After(s, n) == scan(SubSeq(s, 1, n), 1, << >>, FALSE, FALSE)

\* Cut points of a document: it ends after n characters, inside a string,
\* an array or an object, and not between a backslash and what it escapes.
Cuts(s) == {n \in 1..(Len(s) - 1) :
                LET a == After(s, n)
                IN  (a.inString \/ a.stack # << >>) /\ ~a.isEscaped}

\* Closing braces and brackets of a document (not those inside strings).
Closers(s) == {n \in 1..Len(s) :
                 s[n] \in {"}", "]"} /\ ~After(s, n - 1).inString}

\* s with a comma put in before its n-th character.
WithComma(s, n) == SubSeq(s, 1, n - 1) \o <<",">> \o From(s, n)

\* s in a fenced block with the language tag, after a line comment.
Fenced(s) ==
    FENCE \o <<"j", "s", "o", "n", NL, "/", "/", "a", NL>> \o s \o <<NL>> \o FENCE

\* The texts a call may get: a document as it is, cut short, with one
\* trailing comma, or in a fence with a comment.
SamplesOf(x) ==
    LET s == encode(x)
    IN  {[doc |-> s, how |-> "whole", text |-> s],
         [doc |-> s, how |-> "fenced", text |-> Fenced(s)]}
        \cup {[doc |-> s, how |-> "cut", text |-> SubSeq(s, 1, n)] : n \in Cuts(s)}
        \cup {[doc |-> s, how |-> "comma", text |-> WithComma(s, n)] : n \in Closers(s)}

NoSample == [doc |-> << >>, how |-> "none", text |-> << >>]
NotCalled == [ok |-> FALSE, val |-> Undefined, path |-> "none"]

\* extractJson(text) is called and returns or throws.
ExtractJson ==
    /\ sample.how # "none"
    /\ parsed.path = "none"
    /\ parsed' = extractJson(sample.text)
    /\ UNCHANGED <<qvars, avars, sample, costPlan, costs, reply, decoded,
                   response, callResult, written, alerted>>

(* ----------------------------- cost of a plan -------------------------- *)

\* The free marker of a price string, two characters in the program's text;
\* this module writes them m and f.
FREE == <<"m", "f">>

\* Characters of a price string: a digit and the two of the marker, which
\* alone are text that is not a digit.
PriceChars == {"2", "m", "f"}

\* An optional string field: undefined, or a string.
NoString == [has |-> FALSE, s |-> << >>]
Some(s) == [has |-> TRUE, s |-> s]

\* JavaScript truthiness of an optional string: defined and not empty.
Truthy(o) == o.has /\ o.s # << >>

\* str.includes(w)
Includes(s, w) == \E n \in 1..Len(s) : StartsAt(s, w, n)

\* priceStr.match of one or more digits: the index of the first digit, 0 for no match.
RECURSIVE firstDigit(_, _)
firstDigit(s, i) ==
    IF i > Len(s) THEN 0
    ELSE IF s[i] \in Digits THEN i
    ELSE firstDigit(s, i + 1)

\* parseInt(match[1], 10): the value of the digits from i to the end of
\* their run, n being the value so far.
RECURSIVE parseInt(_, _, _)
parseInt(s, i, n) ==
    IF i <= Len(s) /\ s[i] \in Digits
    THEN parseInt(s, i + 1, 10 * n + DigitVal(s[i]))
    ELSE n

\* Every digit of the string read as one number, whatever stands between.
RECURSIVE parsePriceAllDigits(_)
parsePriceAllDigits(priceStr) ==
    IF ~Truthy(priceStr) THEN 0
    ELSE LET s == priceStr.s
             rest == parsePriceAllDigits(Some(SubSeq(s, 1, Len(s) - 1)))
         IN  IF s[Len(s)] \in Digits THEN 10 * rest + DigitVal(s[Len(s)])
             ELSE rest

\* parsePrice(priceStr)
parsePrice(priceStr) ==
    IF ~Truthy(priceStr) THEN 0
    ELSE LET i == firstDigit(priceStr.s, 1)
         IN  IF i = 0 THEN 0 ELSE parseInt(priceStr.s, i, 0)

\* The ticket step without the test for the free marker.
ticketCostNoFree(pt, travelers) ==
    IF Truthy(pt.ticket_price)
    THEN parsePrice(pt.ticket_price) * travelers ELSE 0

\* calculatePointCost, step 1: the ticket price, per person.
ticketCost(pt, travelers) ==
    IF Truthy(pt.ticket_price) /\ ~Includes(pt.ticket_price.s, FREE)
    THEN parsePrice(pt.ticket_price) * travelers ELSE 0

\* The average-cost step with the rooms rounded down.
averageCostFloor(pt, travelers) ==
    IF Truthy(pt.average_cost) /\ ~Includes(pt.average_cost.s, FREE)
    THEN LET price == parsePrice(pt.average_cost)
         IN  IF pt.type = "hotel" THEN price * (travelers \div 2)
             ELSE price * travelers
    ELSE 0

\* calculatePointCost, step 2: the average cost, per room of two for a
\* hotel (Math.ceil(travelers / 2)), per person for all else.
averageCost(pt, travelers) ==
    IF Truthy(pt.average_cost) /\ ~Includes(pt.average_cost.s, FREE)
    THEN LET price == parsePrice(pt.average_cost)
             rooms == (travelers + 1) \div 2
         IN  IF pt.type = "hotel" THEN price * rooms
             ELSE IF pt.type = "restaurant" THEN price * travelers
             ELSE price * travelers
    ELSE 0

\* calculatePointCost, step 3: parking, the ticket price once more, flat.
parkingCost(pt) ==
    IF pt.type = "parking" /\ Truthy(pt.ticket_price)
    THEN parsePrice(pt.ticket_price) ELSE 0

\* calculatePointCost(pt, travelers)
calculatePointCost(pt, travelers) ==
    ticketCost(pt, travelers) + averageCost(pt, travelers) + parkingCost(pt)

NoCosts == [total |-> 0, transport |-> 0, accom |-> 0, dining |-> 0,
            tickets |-> 0]

\* The body of day.points.forEach: the point's cost goes to the total and
\* to the bucket of its type, if it has one.
RECURSIVE addPoints(_, _, _)
addPoints(c, points, travelers) ==
    IF points = << >> THEN c
    ELSE LET pt == points[1]
             cost == calculatePointCost(pt, travelers)
             t == [c EXCEPT !.total = @ + cost]
             b == IF pt.type = "hotel" THEN [t EXCEPT !.accom = @ + cost]
                  ELSE IF pt.type = "restaurant" THEN [t EXCEPT !.dining = @ + cost]
                  ELSE IF pt.type = "attraction" THEN [t EXCEPT !.tickets = @ + cost]
                  ELSE IF pt.type = "parking" THEN [t EXCEPT !.transport = @ + cost]
                  ELSE t
         IN  addPoints(b, Tail(points), travelers)

\* The body of p.days.forEach: the Day's transportation cost, then its points.
RECURSIVE addDays(_, _, _)
addDays(c, days, travelers) ==
    IF days = << >> THEN c
    ELSE LET day == days[1]
             tCost == parsePrice(day.transportation_cost)
             t == IF Truthy(day.transportation_cost)
                  THEN [c EXCEPT !.total = @ + tCost, !.transport = @ + tCost]
                  ELSE c
         IN  addDays(addPoints(t, day.points, travelers), Tail(days), travelers)

\* calculateTotalCost(p)
calculateTotalCost(p) == addDays(NoCosts, p.days, p.travelers)

\* The plans whose cost is computed: the point types of LocationPoint, any
\* price strings, the travelers the form allows (1 and up).
PointTypes == {"attraction", "restaurant", "parking", "hotel", "start", "end"}

Prices(n) == {NoString} \cup {Some(s) : s \in SeqsUpTo(PriceChars, n)}

CostPoints == [type : PointTypes, ticket_price : Prices(MaxPrice),
               average_cost : Prices(MaxPrice)]

\* Days of 1 to n points.
CostDays(n) == [transportation_cost : Prices(MaxTransport),
                points : UNION {[1..m -> CostPoints] : m \in 1..n}]

\* The plans of one Day out of days, for 1 to MaxTravelers travelers.
CostPlans(days) == [travelers : 1..MaxTravelers, days : {<<d>> : d \in days}]

\* The cost of every point of the plan, by Day (the cost label of the
\* point's card).
pointCosts(p) ==
    [d \in 1..Len(p.days) |->
        [i \in 1..Len(p.days[d].points) |->
            calculatePointCost(p.days[d].points[i], p.travelers)]]

\* The budget overview and the cards are drawn: calculateTotalCost(plan),
\* and calculatePointCost for every point.
ShowCosts ==
    /\ costPlan # << >>
    /\ costs = << >>
    /\ costs' = <<[sums |-> calculateTotalCost(costPlan[1]),
                   points |-> pointCosts(costPlan[1])]>>
    /\ UNCHANGED <<qvars, avars, sample, parsed, costPlan, reply, decoded,
                   response, callResult, written, alerted>>

(* --------------------------- generateTravelPlan ------------------------ *)

\* Route endpoints the form may hold.
Places == {"A", "B"}

\* Readings of Date.now() when the reply is projected.
Clocks == {1, 2}

\* The fallback title: start, " - ", end and the fixed suffix.
FallbackTitle(start, end) == <<start, " - ", end, " tour">>

\* The parsed reply without the default for a missing title.
titleOfNoFallback(data, start, end) == data.title.s

\* data.title || fallback
titleOf(data, start, end) ==
    IF Truthy(data.title) THEN data.title.s ELSE FallbackTitle(start, end)

\* data.days || []
daysOf(data) == IF data.days.has THEN data.days.list ELSE << >>

\* generateTravelPlan, from the parsed reply `data` to the TravelPlan it
\* returns (the fields the model follows).
generateTravelPlan(params, data, clock) ==
    [id |-> clock,
     startPoint |-> params.start,
     endPoint |-> params.end,
     title |-> titleOf(data, params.start, params.end),
     durationDays |-> params.days,
     days |-> daysOf(data)]

\* Parsed replies: an object (the call asks for one) with or without a
\* title, which may be empty, and with or without a days array.
Replies == [title : {NoString, Some(<< >>), Some(<<"t">>)},
            days : {Absent} \cup {Present(ReplyDays(1, n)) : n \in 0..MaxPoints}]

Requests == [params : [start : Places, end : Places, days : 1..FormDays],
             data : Replies, clock : Clocks]

\* generateTravelPlan returns, the reply parsed.
Decode ==
    /\ reply # << >>
    /\ decoded = << >>
    /\ decoded' = <<generateTravelPlan(reply[1].params, reply[1].data,
                                       reply[1].clock)>>
    /\ UNCHANGED <<qvars, avars, sample, parsed, costPlan, costs, reply,
                   response, callResult, written, alerted>>

(* --------------------------- the model call --------------------------- *)

\* The HTTP statuses fetch may resolve with.
Statuses == {200, 204, 299, 300, 404, 500}

\* The shapes of a reply's body: not JSON at all, the JSON null, an object
\* with one link of choices[0].message.content missing (or content null),
\* or a body with a content string.
Shapes == {"notJson", "null", "noChoices", "emptyChoices", "noMessage",
           "noContent", "nullContent", "content"}

\* The content strings of the replies: the empty string, blanks, texts.
Contents == {<< >>, <<" ">>} \cup {encode(x) : x \in Flat(1, 1)}

Bodies == {[shape |-> sh, content |-> << >>] : sh \in Shapes \ {"content"}}
              \cup {[shape |-> "content", content |-> c] : c \in Contents}

\* What fetch gives: it rejects, or resolves with a status and a body.
Responses == {[kind |-> "network", status |-> 0,
               body |-> [shape |-> "notJson", content |-> << >>]]}
                 \cup {[kind |-> "http", status |-> s, body |-> b] :
                          s \in Statuses, b \in Bodies}

\* response.ok
responseOk(r) == r.status >= 200 /\ r.status <= 299

\* data.choices?.[0]?.message?.content
contentChain(body) ==
    IF body.shape = "content" THEN Some(body.content) ELSE NoString

Threw(msg) == [threw |-> TRUE, error |-> msg, content |-> << >>]
Returned(c) == [threw |-> FALSE, error |-> "", content |-> c]

\* callOpenAICompatible that does not look at response.ok.
callNoStatusCheck(r) ==
    IF r.kind = "network" THEN Threw("fetch")
    ELSE IF r.body.shape = "notJson" THEN Threw("SyntaxError")
    ELSE IF r.body.shape = "null" THEN Threw("TypeError")
    ELSE LET content == IF Truthy(contentChain(r.body))
                        THEN contentChain(r.body).s ELSE << >>
         IN  IF content = << >> THEN Threw("Empty response from AI")
             ELSE Returned(content)

\* callOpenAICompatible, fetch having given r: a rejection of fetch, a
\* status that is not ok, a body that response.json() cannot read or that
\* has no choices member to read, and a falsy content all throw (the catch
\* logs and throws again); else the content is returned.
callOpenAICompatible(r) ==
    IF r.kind = "network" THEN Threw("fetch")
    ELSE IF ~responseOk(r) THEN Threw("API Request Failed")
    ELSE IF r.body.shape = "notJson" THEN Threw("SyntaxError")
    ELSE IF r.body.shape = "null" THEN Threw("TypeError")
    ELSE LET content == IF Truthy(contentChain(r.body))
                        THEN contentChain(r.body).s ELSE << >>
         IN  IF content = << >> THEN Threw("Empty response from AI")
             ELSE Returned(content)

\* The call settles.
CallModel ==
    /\ response # << >>
    /\ callResult = << >>
    /\ callResult' = <<callOpenAICompatible(response[1])>>
    /\ UNCHANGED <<qvars, avars, sample, parsed, costPlan, costs, reply,
                   decoded, response, written, alerted>>

\* getAlternativePoints after its await: the text the call returned goes to
\* extractJson (a call that threw never gets here).
PassToParser ==
    /\ callResult # << >>
    /\ ~callResult[1].threw
    /\ sample = NoSample
    /\ sample' = [doc |-> callResult[1].content, how |-> "reply",
                  text |-> callResult[1].content]
    /\ parsed' = extractJson(callResult[1].content)
    /\ UNCHANGED <<qvars, avars, costPlan, costs, reply, decoded,
                   response, callResult, written, alerted>>

\* No pure function has been called: the state of the App specifications.
FIdle ==
    /\ sample = NoSample
    /\ parsed = NotCalled
    /\ costPlan = << >>
    /\ costs = << >>
    /\ reply = << >>
    /\ decoded = << >>
    /\ response = << >>
    /\ callResult = << >>
    /\ written = << >>

QInit ==
    /\ queue = << >>
    /\ activeCount = 0
    /\ tasks = << >>
    /\ st = << >>
    /\ startLog = << >>
    /\ errLog = {}
    /\ escaped = {}
    /\ afterFailure = {}

AInit ==
    /\ plan = << >>
    /\ view = [plan |-> << >>, alternatives |-> << >>]
    /\ showAlternatives = << >>
    /\ alternatives = << >>
    /\ calls = << >>
    /\ genReq = << >>
    /\ gens = 0
    /\ nReplace = 0
    /\ now = 0
    /\ warnLog = {}
    /\ result = << >>
    /\ crashed = FALSE
    /\ lag = 0
    /\ alerted = FALSE
    /\ altType \in AltTypes

Init == QInit /\ AInit /\ FIdle

\* The queue alone, under any sequence of add() calls and settlements.
QNext ==
    \/ Add
    \/ \E t \in TaskIds : Resolve(t)
    \/ \E t \in TaskIds : Reject(t)
    \/ \E t \in TaskIds : Resume(t)

QueueSpec == Init /\ [][QNext]_vars

\* Every started task settles, and a settled await resumes (the microtask
\* that continues process() always runs).
QueueFairSpec ==
    /\ QueueSpec
    /\ \A t \in 1..MaxTasks : WF_vars(Resolve(t) \/ Reject(t))
    /\ \A t \in 1..MaxTasks : WF_vars(Resume(t))

Next ==
    \/ Render
    \/ GenerateStart
    \/ \E n \in 0..MaxPoints, clock \in Readings : GenerateOk(n, clock)
    \/ GenerateFail
    \/ \E t \in TaskIds, n \in ReplySizes : BulkOk(t, n)
    \/ \E t \in TaskIds : BulkFail(t)
    \/ \E t \in TaskIds, n \in ReplySizes : ReOk(t, n)
    \/ \E t \in TaskIds : ReFail(t)
    \/ \E t \in TaskIds : Resume(t)
    \/ \E d \in 1..MaxPoints, p \in 1..MaxPoints : handleReplaceClick(d, p)
    \/ \E c \in 1..Len(calls), n \in ReplySizes : ManualOk(c, n)
    \/ \E c \in 1..Len(calls) : ManualFail(c)
    \/ CloseSheet
    \/ \E k \in 1..MaxAlts : confirmReplace(k)

Spec == Init /\ [][Next]_vars

\* extractJson alone, on every sample of every value within the bounds.
ParserInit ==
    /\ QInit
    /\ AInit
    /\ altType = ""
    /\ sample \in UNION {SamplesOf(x) : x \in Values(MaxStr, MaxItems, MaxDepth)}
    /\ parsed = NotCalled
    /\ costPlan = << >>
    /\ costs = << >>
    /\ reply = << >>
    /\ decoded = << >>
    /\ response = << >>
    /\ callResult = << >>
    /\ written = << >>

ParserNext == ExtractJson

ParserSpec == ParserInit /\ [][ParserNext]_vars

\* calculateTotalCost and calculatePointCost alone, on every plan of CostPlans.
CostInit ==
    /\ QInit
    /\ AInit
    /\ altType = ""
    /\ sample = NoSample
    /\ parsed = NotCalled
    /\ costPlan \in {<<p>> : p \in CostPlans(CostDays(MaxCostPts))}
    /\ costs = << >>
    /\ reply = << >>
    /\ decoded = << >>
    /\ response = << >>
    /\ callResult = << >>
    /\ written = << >>

CostNext == ShowCosts

CostSpec == CostInit /\ [][CostNext]_vars

\* generateTravelPlan's projection alone, on every reply of Requests.
DecodeInit ==
    /\ QInit
    /\ AInit
    /\ altType = ""
    /\ sample = NoSample
    /\ parsed = NotCalled
    /\ costPlan = << >>
    /\ costs = << >>
    /\ reply \in {<<r>> : r \in Requests}
    /\ decoded = << >>
    /\ response = << >>
    /\ callResult = << >>
    /\ written = << >>

DecodeNext == Decode

DecodeSpec == DecodeInit /\ [][DecodeNext]_vars

\* Plan generation and the bulk enrichment it queues, with no click on the
\* plan: what the submitted tasks do among themselves.
EnrichNext ==
    \/ Render
    \/ GenerateStart
    \/ \E n \in 0..MaxPoints, clock \in Readings : GenerateOk(n, clock)
    \/ GenerateFail
    \/ \E t \in TaskIds, n \in ReplySizes : BulkOk(t, n)
    \/ \E t \in TaskIds : BulkFail(t)
    \/ \E t \in TaskIds : Resume(t)

EnrichSpec == Init /\ [][EnrichNext]_vars

\* callOpenAICompatible and the hand-over of its text, on every response of
\* Responses.
CallInit ==
    /\ QInit
    /\ AInit
    /\ altType = ""
    /\ sample = NoSample
    /\ parsed = NotCalled
    /\ costPlan = << >>
    /\ costs = << >>
    /\ reply = << >>
    /\ decoded = << >>
    /\ response \in {<<r>> : r \in Responses}
    /\ callResult = << >>
    /\ written = << >>

CallNext == CallModel \/ PassToParser

CallSpec == CallInit /\ [][CallNext]_vars

\* Generation pressed more than once, with the enrichment of each plan and
\* the sheet's own requests, and no replacement.
RegenNext ==
    \/ Render
    \/ GenerateAgain
    \/ \E n \in 0..MaxRegenPoints, clock \in Readings : GenerateOk(n, clock)
    \/ GenerateFail
    \/ \E t \in TaskIds, n \in ReplySizes : BulkOk(t, n)
    \/ \E t \in TaskIds : BulkFail(t)
    \/ \E t \in TaskIds : Resume(t)
    \/ \E d \in 1..MaxRegenPoints, p \in 1..MaxRegenPoints : handleReplaceClick(d, p)
    \/ \E c \in 1..Len(calls), n \in ReplySizes : ManualOk(c, n)
    \/ \E c \in 1..Len(calls) : ManualFail(c)
    \/ CloseSheet

RegenSpec == Init /\ [][RegenNext]_vars

(* ------------------------ claims: RequestQueue ------------------------ *)

\* Tasks whose fn has been called and has not settled.
Running == {t \in TaskIds : st[t] = "running"}

\* How many times process() called task t.
Starts(t) == Cardinality({i \in 1..Len(startLog) : startLog[i] = t})

\* C1: at no instant are more than K = 2 tasks started and not yet settled
\* (nor does the queue's own count of them exceed K).
C1_ConcurrencyBound ==
    /\ Cardinality(Running) <= 2
    /\ activeCount <= 2

\* C1's case: the cap is reached while further tasks wait.
C1_Witness ==
    /\ Cardinality(Running) = 2
    /\ Len(queue) >= 2

\* C2: every submitted task is started exactly once (never twice, and once
\* as soon as it has left the pending list) and eventually completes: it
\* does not stay queued or running forever.
C2_EveryTaskRunsOnce ==
    /\ [](\A t \in TaskIds :
            /\ Starts(t) <= 1
            /\ (st[t] # "queued" <=> Starts(t) = 1)
            /\ (st[t] = "queued" <=> \E i \in 1..Len(queue) : queue[i] = t))
    /\ \A t \in 1..MaxTasks :
            [](t \in TaskIds => <>(t \in TaskIds /\ st[t] = "finished"))

\* C2's case: more tasks than slots were submitted, some waited, all are done.
C2_Witness ==
    /\ Len(tasks) >= 4
    /\ \A t \in TaskIds : st[t] = "finished" /\ Starts(t) = 1
    /\ queue = << >>

\* C3: tasks are started in the order they were submitted: the k-th task
\* started is the k-th task submitted, whatever order tasks settle in.
C3_FifoStart ==
    \A i \in 1..Len(startLog) : startLog[i] = i

\* C3's case: the second task is over while the first still runs, and a
\* third, submitted later, has been started in its place.
C3_Witness ==
    /\ Len(startLog) >= 3
    /\ st[1] = "running"
    /\ st[2] = "finished"
    /\ Len(queue) >= 1

\* C4: the step that resumes process() after a rejected task logs the
\* failure, lets nothing escape, lowers the count by one exactly as after a
\* resolved task, and starts the head of the pending list if there is one;
\* and whatever waits once a task has failed is started later on.
C4_FailureIsolated ==
    /\ [][\A t \in TaskIds :
            (st[t] \in {"resolved", "rejected"} /\ st'[t] = "finished") =>
                /\ escaped' = {}
                /\ (st[t] = "rejected" => t \in errLog')
                /\ Cardinality({u \in TaskIds : st'[u] \in {"running", "resolved", "rejected"}})
                       = activeCount'
                /\ IF queue = << >>
                   THEN activeCount' = activeCount - 1
                   ELSE /\ activeCount' = activeCount
                        /\ st'[Head(queue)] = "running"
                        /\ queue' = Tail(queue)]_vars
    /\ \A u \in 1..MaxTasks :
            []((errLog # {} /\ u \in TaskIds /\ st[u] = "queued")
                   => <>(u \in TaskIds /\ st[u] # "queued"))

\* C4's case: a task was rejected while another waited, and the finally of
\* the rejected one started the waiting one.
C4_Witness ==
    /\ errLog # {}
    /\ afterFailure # {}
    /\ escaped = {}

(* ---------------------- claims: enrichment, Plan ---------------------- *)

\* The find-alternatives calls that are out: those of running queue tasks
\* and those handleReplaceClick made itself.
Outstanding ==
    Cardinality({t \in TaskIds : tasks[t].kind \in {"bulk", "re"} /\ st[t] = "running"})
    + Cardinality({c \in 1..Len(calls) : calls[c].st = "pending"})

\* The coordinates at which two plans differ.
Changed(P, Q) ==
    {c \in Coords(P) \cup Coords(Q) : PointAt(P, c[1], c[2]) # PointAt(Q, c[1], c[2])}

\* C5: while only the bulk tasks of one Plan write to it, every coordinate
\* holds exactly the list its own task returned once that task has
\* succeeded, and nothing before: no completion, in any order, overwrites or
\* loses another coordinate's result.
C5_MergeRaceSafe ==
    (gens = 1 /\ nReplace = 0 /\ calls = << >>) =>
        /\ plan # << >>
        /\ \A t \in TaskIds :
               /\ tasks[t].kind = "bulk"
               /\ HasPoint(plan[1], tasks[t].dIdx, tasks[t].pIdx)
               /\ plan[1].days[tasks[t].dIdx].points[tasks[t].pIdx].alternatives
                      = result[t]
        /\ \A c \in Coords(plan[1]) :
               \E t \in TaskIds : tasks[t].dIdx = c[1] /\ tasks[t].pIdx = c[2]

\* C5's case: three tasks for three coordinates, one of them made to wait by
\* the cap, have all succeeded and the plan holds the three lists.
C5_Witness ==
    /\ gens = 1 /\ nReplace = 0 /\ calls = << >>
    /\ Len(tasks) = 3
    /\ \A t \in TaskIds : st[t] = "finished" /\ result[t].has
    /\ \A t \in TaskIds :
           plan[1].days[tasks[t].dIdx].points[tasks[t].pIdx].alternatives.list
               = AltList(tasks[t].name, Len(result[t].list), altType)

\* C6: at most K = 2 find-alternatives calls are out at any time.
C6_CallsBounded == Outstanding <= 2

\* C7: a write to the Plan that is not a new generation changes the point
\* it is about and leaves every other coordinate as the latest Plan had it.
C7_NoLostUpdate ==
    [][(plan # << >> /\ plan' # << >> /\ gens' = gens) =>
           Cardinality(Changed(plan[1], plan'[1])) <= 1]_vars

\* C8: the step in which a task's find-alternatives call fails writes
\* nothing to the Plan, and neither that step nor the queue's handling of
\* the failure lets an error escape; what sibling tasks merged stays.
C8_FailureWritesNothing ==
    [][\A t \in TaskIds :
          \/ /\ st[t] = "running"
             /\ st'[t] \in {"resolved", "rejected"}
             /\ ~result'[t].has
          \/ /\ st[t] = "rejected"
             /\ st'[t] = "finished"
          => /\ plan' = plan
             /\ escaped' = {}
             /\ (st'[t] = "finished" => t \in errLog')]_vars

\* C8's case: a bulk task and a replacement's task have both failed, a
\* sibling's list is in the plan, and the failed bulk task's point has none.
C8_Witness ==
    /\ plan # << >>
    /\ errLog # {}
    /\ \E t \in warnLog, u \in TaskIds :
           /\ tasks[u].kind = "bulk" /\ result[u].has /\ u # t
           /\ <<tasks[u].dIdx, tasks[u].pIdx>> # <<tasks[t].dIdx, tasks[t].pIdx>>
           /\ PointAt(plan[1], tasks[u].dIdx, tasks[u].pIdx).alternatives = result[u]
           /\ PointAt(plan[1], tasks[t].dIdx, tasks[t].pIdx).alternatives = Absent

\* C9: durationDays is the number of Days of the Plan.
C9_DurationIsDayCount ==
    plan # << >> => plan[1].durationDays = Len(plan[1].days)

\* C10: no write that is not a new generation changes the category of the
\* point at any coordinate.
C10_TypeImmutable ==
    [][(plan # << >> /\ plan' # << >> /\ gens' = gens) =>
           \A c \in Coords(plan[1]) :
               PointAt(plan'[1], c[1], c[2]).type = PointAt(plan[1], c[1], c[2]).type]_vars

(* --------------------------- claims: the parser ------------------------ *)

\* extractJson has been called on the sample and has returned or thrown.
Called == parsed.path # "none"

\* What a plain JSON.parse of the sample's document gives.
DocValue == JSONparse(sample.doc).val

\* Is p a prefix of q.
IsPrefix(p, q) == Len(p) <= Len(q) /\ SubSeq(q, 1, Len(p)) = p

\* v holds nothing but what d held before the cut: d with a tail of members
\* gone and the last one left standing cut short in the same way.
RECURSIVE Approx(_, _)
Approx(v, d) ==
    /\ v.k = d.k
    /\ IF v.k = "num" THEN IsPrefix(digitsOf(v.v), digitsOf(d.v))
       ELSE IF v.k = "str" THEN IsPrefix(v.v, d.v)
       ELSE /\ Len(v.v) <= Len(d.v)
            /\ \A i \in 1..(Len(v.v) - 1) : v.v[i] = d.v[i]
            /\ Len(v.v) > 0 =>
                 LET a == v.v[Len(v.v)]
                     b == d.v[Len(v.v)]
                 IN  IF v.k = "arr" THEN Approx(a, b)
                     ELSE a[1] = b[1] /\ Approx(a[2], b[2])

\* Are the two slashes at n inside a string literal of s.
SlashesInString(s) ==
    \E n \in 1..Len(s) :
        StartsAt(s, <<"/", "/">>, n) /\ After(s, n - 1).inString

\* C11: for every text that is already valid JSON, extractJson returns what
\* a plain JSON.parse of that text returns.
C11_DirectParseEquivalence ==
    (sample.how = "whole" /\ Called) =>
        (parsed.ok /\ parsed.val = JSONparse(sample.text).val)

\* C12: for a valid document cut short inside a string, an array or an
\* object (not inside an escape), extractJson succeeds and its value holds
\* only data that stood before the cut.
C12_TruncationRepaired ==
    (sample.how = "cut" /\ Called) =>
        (parsed.ok /\ Approx(parsed.val, DocValue))

\* C13: for a valid document with one comma put in just before a closing
\* brace or bracket, extractJson returns the value of the document.
C13_TrailingCommaTolerated ==
    (sample.how = "comma" /\ Called) =>
        (parsed.ok /\ parsed.val = DocValue)

\* C14: a pair of slashes inside a string literal survives comment removal:
\* the decoded value of a document that has one, alone or in a fence after
\* a comment line, is the document's value.
C14_CommentsStringAware ==
    (sample.how \in {"whole", "fenced"} /\ SlashesInString(sample.doc) /\ Called) =>
        (parsed.ok /\ parsed.val = DocValue)

(* ------------------------ claims: the cost of a plan ------------------- *)

\* calculateTotalCost and calculatePointCost have been called on costPlan.
Shown == costs # << >>

\* The coordinates of the points of the plan whose cost is computed.
CostCoords ==
    {c \in (1..Len(costPlan[1].days)) \X (1..MaxCostPts) :
        c[2] <= Len(costPlan[1].days[c[1]].points)}

CostPoint(c) == costPlan[1].days[c[1]].points[c[2]]

\* The cost shown for the point at c.
ShownCost(c) == costs[1].points[c[1]][c[2]]

\* A price that is there and does not say free.
NonFree(o) == Truthy(o) /\ ~Includes(o.s, FREE)

\* The least number of rooms of two that hold T travelers.
RoomsFor(T) == CHOOSE r \in 0..T : 2 * r >= T /\ 2 * (r - 1) < T

RECURSIVE Pow10(_)
Pow10(n) == IF n = 0 THEN 1 ELSE 10 * Pow10(n - 1)

RECURSIVE PlaceSum(_, _, _)
PlaceSum(s, i, j) ==
    IF i > j THEN 0 ELSE DigitVal(s[i]) * Pow10(j - i) + PlaceSum(s, i + 1, j)

\* The number the first run of digits of an optional string writes, 0 when
\* it has none.
FirstRunValue(o) ==
    LET s == o.s
        D == {i \in 1..Len(s) : s[i] \in Digits}
    IN  IF D = {} THEN 0
        ELSE LET i == CHOOSE x \in D : \A y \in D : x <= y
                 E == {x \in i..Len(s) : \A k \in i..x : s[k] \in Digits}
                 j == CHOOSE x \in E : \A y \in E : y <= x
             IN  PlaceSum(s, i, j)

\* C15: a parking point with a non-free ticket price and no average cost
\* costs exactly that price, whatever the number of travelers.
C15_ParkingFlat ==
    Shown =>
        \A c \in CostCoords :
            (/\ CostPoint(c).type = "parking"
             /\ NonFree(CostPoint(c).ticket_price)
             /\ ~CostPoint(c).average_cost.has)
            => ShownCost(c) = parsePrice(CostPoint(c).ticket_price)

\* C16: the grand total of calculateTotalCost is the sum of its four
\* buckets, for points of every type.
C16_TotalIsSumOfBuckets ==
    Shown =>
        LET r == costs[1].sums
        IN  r.total = r.transport + r.accom + r.dining + r.tickets

\* C17: a non-free average cost of price p counts p times the rooms of two
\* for a hotel and p times the travelers for every other type; it is the
\* whole cost of a point without a ticket price.
C17_AverageCostRule ==
    Shown =>
        \A c \in CostCoords :
            NonFree(CostPoint(c).average_cost) =>
                LET pt == CostPoint(c)
                    T == costPlan[1].travelers
                    p == FirstRunValue(pt.average_cost)
                    due == IF pt.type = "hotel" THEN p * RoomsFor(T) ELSE p * T
                IN  /\ averageCost(pt, T) = due
                    /\ ~pt.ticket_price.has => ShownCost(c) = due

\* A hotel at an average cost of 22 for 3 travelers is shown to cost 44.
C17_Witness ==
    /\ Shown
    /\ costPlan[1].travelers = 3
    /\ \E c \in CostCoords :
          /\ CostPoint(c).type = "hotel"
          /\ CostPoint(c).average_cost = Some(<<"2", "2">>)
          /\ ~CostPoint(c).ticket_price.has
          /\ ShownCost(c) = 44

\* C18: a ticket price that holds the free marker adds nothing as a ticket,
\* for every type and number of travelers: the point costs what its average
\* cost and its parking step make.
C18_FreeTicketIsZero ==
    Shown =>
        \A c \in CostCoords :
            (CostPoint(c).ticket_price.has
             /\ Includes(CostPoint(c).ticket_price.s, FREE)) =>
                LET pt == CostPoint(c)
                    T == costPlan[1].travelers
                IN  /\ ticketCost(pt, T) = 0
                    /\ ShownCost(c) = averageCost(pt, T) + parkingCost(pt)

\* An attraction whose ticket price holds the free marker and a digit, with
\* no average cost, is shown to cost 0 for 3 travelers.
C18_Witness ==
    /\ Shown
    /\ costPlan[1].travelers = 3
    /\ \E c \in CostCoords :
          /\ CostPoint(c).type = "attraction"
          /\ CostPoint(c).ticket_price = Some(<<"m", "f", "2">>)
          /\ ~CostPoint(c).average_cost.has
          /\ ShownCost(c) = 0

\* C19: parsePrice gives the number of the first run of digits and 0 for a
\* string that is missing, empty or without a digit; the costs computed
\* from it are never negative.
C19_ParsePriceTotal ==
    Shown =>
        /\ \A c \in CostCoords :
              /\ parsePrice(CostPoint(c).ticket_price)
                    = FirstRunValue(CostPoint(c).ticket_price)
              /\ parsePrice(CostPoint(c).average_cost)
                    = FirstRunValue(CostPoint(c).average_cost)
              /\ ShownCost(c) >= 0
        /\ \A d \in 1..Len(costPlan[1].days) :
              parsePrice(costPlan[1].days[d].transportation_cost)
                  = FirstRunValue(costPlan[1].days[d].transportation_cost)
        /\ \A f \in {"total", "transport", "accom", "dining", "tickets"} :
              costs[1].sums[f] >= 0

\* A restaurant whose average cost has two runs of digits, 2 and 2, and no
\* readable ticket price costs 2 a person.
C19_Witness ==
    /\ Shown
    /\ costPlan[1].travelers = 1
    /\ \E c \in CostCoords :
          /\ CostPoint(c).type = "restaurant"
          /\ CostPoint(c).average_cost = Some(<<"2", "m", "2">>)
          /\ CostPoint(c).ticket_price = Some(<<"m">>)
          /\ ShownCost(c) = 2
    /\ costs[1].sums.total = 2

(* ----------------------- claims: generateTravelPlan -------------------- *)

\* C20: a parsed reply without a days field gives a Plan with no Days, one
\* without a title gives the fallback title of start and end; the call
\* returns in both cases.
C20_MissingFieldsDefault ==
    decoded # << >> =>
        LET r == reply[1]
        IN  /\ ~r.data.days.has => decoded[1].days = << >>
            /\ ~r.data.title.has =>
                  decoded[1].title = FallbackTitle(r.params.start, r.params.end)

\* A reply with neither field has been projected.
C20_Witness ==
    /\ decoded # << >>
    /\ ~reply[1].data.days.has
    /\ ~reply[1].data.title.has
    /\ decoded[1].days = << >>
    /\ decoded[1].title = FallbackTitle(reply[1].params.start, reply[1].params.end)

(* ------------------------ claims: the queue, II ----------------------- *)

\* A task whose promise settled and whose continuation of process() has
\* not run yet.
Settled == {t \in TaskIds : st[t] \in {"resolved", "rejected"}}

\* The queue is Idle.
Idle == queue = << >> /\ activeCount = 0

\* C23: once every submitted task has settled the queue becomes Idle (empty
\* pending list, running count 0: at once when the continuations have run),
\* and a task submitted to an Idle queue is started by that add() call.
C23_IdleAndUsable ==
    /\ []((\A t \in TaskIds : st[t] = "finished") => Idle)
    /\ []((TaskIds # {} /\ \A t \in TaskIds : st[t] # "queued" /\ st[t] # "running")
             => <>Idle)
    /\ [][(Idle /\ Len(tasks') = Len(tasks) + 1) =>
             /\ st'[Len(tasks')] = "running"
             /\ startLog' = Append(startLog, Len(tasks'))
             /\ activeCount' = 1
             /\ queue' = << >>]_vars

\* C23's case: the first tasks are over, the queue went Idle, and the task
\* submitted after that runs alone with nothing pending.
C23_Witness ==
    /\ Len(tasks) >= 3
    /\ \A t \in 1..(Len(tasks) - 1) : st[t] = "finished"
    /\ st[Len(tasks)] = "running"
    /\ activeCount = 1
    /\ queue = << >>

\* C27: between events (no continuation of process() waiting to run), a
\* task waits in the pending list only while exactly K = 2 tasks run; and
\* the queue's count is 2 whenever anything waits.
C27_WorkConserving ==
    /\ Len(queue) > 0 => activeCount = 2
    /\ (Len(queue) > 0 /\ Settled = {}) => Cardinality(Running) = 2

\* C27's case: a slot was given back and taken again at once, tasks are
\* still waiting.
C27_Witness ==
    /\ Len(queue) > 0
    /\ Settled = {}
    /\ Cardinality(Running) = 2
    /\ \E t \in TaskIds : st[t] = "finished"

(* --------------------- claims: generation, again ---------------------- *)

\* C21: the step in which a generation request ends without a plan (the
\* model call or the parsing threw) shows the failure, leaves no request
\* behind it (nothing is tried again), leaves the shared Plan as it was and
\* submits no task to the queue.
C21_FailedGenerationChangesNothing ==
    [][(genReq # << >> /\ genReq' = << >> /\ gens' = gens) =>
          /\ alerted'
          /\ plan' = plan
          /\ tasks' = tasks
          /\ queue' = queue
          /\ st' = st
          /\ startLog' = startLog
          /\ activeCount' = activeCount]_vars

\* C21's case: a generation failed and was shown; a Plan is there with its
\* enrichment still running, and no request is out.
C21_Witness ==
    /\ alerted
    /\ genReq = << >>
    /\ plan # << >>
    /\ gens = 1
    /\ Running # {}

\* C22: the Plan a successful generation publishes has an id different
\* from the id of the Plan generated before it, also when the clock reads
\* the same at both returns.
C22_DistinctIds ==
    [][(gens' = gens + 1 /\ ~crashed /\ plan # << >> /\ plan' # << >>) =>
          plan'[1].id # plan[1].id]_vars

\* C28: a prefetchAlternatives task created for one Plan, returning when
\* another generation's Plan is the current one, writes nothing into it.
C28_TaskWritesOwnPlanOnly ==
    [][\A t \in TaskIds :
          (/\ tasks[t].kind = "bulk"
           /\ st[t] = "running"
           /\ st'[t] = "resolved"
           /\ plan # << >>
           /\ tasks[t].gen # plan[1].gen) => plan' = plan]_vars

\* Plan Q is Plan P but for the alternatives of the point at (d, p).
OnlyAlternativesAt(P, Q, d, p) ==
    /\ Q.id = P.id
    /\ Q.gen = P.gen
    /\ Q.durationDays = P.durationDays
    /\ Len(Q.days) = Len(P.days)
    /\ \A dd \in 1..Len(P.days) :
          /\ Len(Q.days[dd].points) = Len(P.days[dd].points)
          /\ \A pp \in 1..Len(P.days[dd].points) :
                /\ Q.days[dd].points[pp].name = P.days[dd].points[pp].name
                /\ Q.days[dd].points[pp].type = P.days[dd].points[pp].type
                /\ (<<dd, pp>> # <<d, p>> =>
                       Q.days[dd].points[pp].alternatives
                           = P.days[dd].points[pp].alternatives)

\* C30: the merge of a fetched list at (d, p), by a prefetchAlternatives
\* task or by the sheet's own request, changes nothing of the current Plan
\* but the alternatives of the point at (d, p); and the task's merge, the
\* Plan having no point at (d, p), changes nothing and raises no error.
C30_MergeFrame ==
    [][/\ \A t \in TaskIds :
             (/\ tasks[t].kind = "bulk"
              /\ st[t] = "running"
              /\ st'[t] = "resolved"
              /\ plan # << >>) =>
                 /\ plan' # << >>
                 /\ OnlyAlternativesAt(plan[1], plan'[1], tasks[t].dIdx,
                                       tasks[t].pIdx)
                 /\ (~HasPoint(plan[1], tasks[t].dIdx, tasks[t].pIdx) =>
                        plan' = plan /\ crashed' = crashed)
       /\ \A c \in 1..Len(calls) :
             (/\ calls[c].st = "pending"
              /\ calls'[c].st = "ok"
              /\ plan # << >>) =>
                 /\ plan' # << >>
                 /\ OnlyAlternativesAt(plan[1], plan'[1], calls[c].dIdx,
                                       calls[c].pIdx)]_vars

(* ------------------------ claims: replacement ------------------------- *)

\* Whether a stored list was fetched for a point of that name.
FetchedFor(list, name) ==
    \A i \in 1..Len(list) : list[i].name = Append(name, i)

\* C29: once a replacement was accepted at (d, p), the alternatives stored
\* at (d, p) are never a list fetched for another name than the replacement
\* point's, and with every task and request over, successfully, they are
\* the list the replacement's own task fetched.
C29_ReplacedPointKeepsOwnAlternatives ==
    \A t \in TaskIds :
        (tasks[t].kind = "re" /\ plan # << >>
             /\ HasPoint(plan[1], tasks[t].dIdx, tasks[t].pIdx)) =>
            LET pt == plan[1].days[tasks[t].dIdx].points[tasks[t].pIdx]
            IN  /\ FetchedFor(pt.alternatives.list, tasks[t].name)
                /\ (/\ \A u \in TaskIds : st[u] = "finished" /\ result[u].has
                    /\ \A c \in 1..Len(calls) : calls[c].st = "ok"
                    /\ ~crashed)
                   => pt.alternatives = result[t]

\* C25: no operation assigns into the objects of a Plan that was published
\* before: whenever an operation has written through a reference into such
\* a Plan, the Plan reads after the write as it read before it.
C25_PublishedPlanNeverWritten ==
    written # << >> => written[1].reads = written[1].taken

(* ------------------------ claims: the model call ---------------------- *)

\* Whether the reply has no content to speak of: a link of
\* choices[0].message.content is missing, or the content is null or "".
NoContent(r) ==
    r.body.shape \in {"noChoices", "emptyChoices", "noMessage", "noContent",
                      "nullContent"}
        \/ (r.body.shape = "content" /\ r.body.content = << >>)

\* C24: a call whose status is outside 200..299, or whose reply has an
\* empty or missing choices[0].message.content, ends in an error, and no
\* text of it is ever handed to extractJson.
C24_BadReplyNeverParsed ==
    (/\ response # << >>
     /\ response[1].kind = "http"
     /\ (response[1].status < 200 \/ response[1].status > 299
            \/ NoContent(response[1]))) =>
        /\ callResult # << >> => callResult[1].threw
        /\ sample = NoSample
        /\ parsed = NotCalled

\* C24's case: a 200 reply with content "" has ended in the error.
C24_Witness ==
    /\ response # << >>
    /\ response[1].kind = "http"
    /\ response[1].status = 200
    /\ response[1].body = [shape |-> "content", content |-> << >>]
    /\ callResult # << >>
    /\ callResult[1].threw
    /\ callResult[1].error = "Empty response from AI"

(* ------------------------ claims: the repair pass --------------------- *)

\* How many backslashes end at position i of s, one after the other.
RECURSIVE BslRun(_, _)
BslRun(s, i) == IF i < 1 \/ s[i] # BSL THEN 0 ELSE 1 + BslRun(s, i - 1)

\* Whether the first n characters of s end inside a string literal: an odd
\* number of quotes that no backslash escapes.
InString(s, n) ==
    Cardinality({i \in 1..n : s[i] = QUOTE /\ BslRun(s, i - 1) % 2 = 0}) % 2 = 1

\* Whether the n-th character of s is a closing brace or bracket outside
\* any string that does not close the innermost open container.
RECURSIVE OpenStack(_, _)
Stray(s, n) ==
    /\ s[n] \in {"}", "]"}
    /\ ~InString(s, n - 1)
    /\ LET r == OpenStack(s, n - 1)
       IN  r = << >> \/ r[Len(r)] # s[n]

\* The closers of the containers open after the first n characters of s,
\* outermost first: an opener outside any string opens one, the closer of
\* the innermost one closes it, any other character changes nothing.
OpenStack(s, n) ==
    IF n = 0 THEN << >>
    ELSE LET r == OpenStack(s, n - 1)
         IN  IF InString(s, n - 1) THEN r
             ELSE IF s[n] = "{" THEN Append(r, "}")
             ELSE IF s[n] = "[" THEN Append(r, "]")
             ELSE IF s[n] \in {"}", "]"} /\ r # << >> /\ r[Len(r)] = s[n]
                  THEN SubSeq(r, 1, Len(r) - 1)
             ELSE r

\* A sequence back to front.
RECURSIVE Reverse(_)
Reverse(q) == IF q = << >> THEN << >> ELSE Append(Reverse(Tail(q)), q[1])

\* The closers a document x still owes, innermost first, when its compact
\* text is cut after n characters: read off the value, not off the text.
RECURSIVE OpenAfter(_, _)
RECURSIVE OpenInItems(_, _)
RECURSIVE OpenInMembers(_, _)
OpenAfter(x, n) ==
    IF n <= 0 \/ n >= Len(encode(x)) THEN << >>
    ELSE IF x.k = "arr" THEN OpenInItems(x.v, n - 1) \o <<"]">>
    ELSE IF x.k = "obj" THEN OpenInMembers(x.v, n - 1) \o <<"}">>
    ELSE << >>

OpenInItems(a, n) ==
    IF a = << >> THEN << >>
    ELSE OpenAfter(a[1], n) \o OpenInItems(Tail(a), n - Len(encode(a[1])) - 1)

OpenInMembers(o, n) ==
    IF o = << >> THEN << >>
    ELSE LET key == Len(escape(o[1][1])) + 3
         IN  OpenAfter(o[1][2], n - key)
                 \o OpenInMembers(Tail(o), n - key - Len(encode(o[1][2])) - 1)

\* The closers the repair pass appends to jsonString.
Appended(jsonString) ==
    closeAll(<< >>, scan(jsonString, 1, << >>, FALSE, FALSE).stack)

\* C26: when extractJson goes to its repair pass, the closers it appends
\* are those of the containers open at the end of the text outside any
\* string, innermost first (braces and brackets inside strings, and closers
\* that do not match the innermost open container, counting for nothing);
\* for a document cut short they are the closers the document still owed.
C26_ClosersExact ==
    (Called /\ parsed.path # "direct") =>
        LET js == cleaned(sample.text)
        IN  /\ Appended(js) = Reverse(OpenStack(js, Len(js)))
            /\ (sample.how = "cut" /\ js = sample.text) =>
                   Appended(js) = OpenAfter(DocValue, Len(js))

\* C26's case: a cut inside two containers, a brace standing in a string
\* before the cut, and the two closers appended, the inner one first.
C26_Witness ==
    /\ Called
    /\ parsed.path = "repair"
    /\ sample.how = "cut"
    /\ cleaned(sample.text) = sample.text
    /\ \E i \in 1..Len(sample.text) :
           sample.text[i] \in {"{", "}"} /\ InString(sample.text, i - 1)
    /\ Appended(sample.text) \in {<<"]", "}">>, <<"}", "]">>}

====
